---- MODULE Spec2Model ----
(***************************************************************************)
(* Shorty: a URL shortener (main.go) over one PostgreSQL table             *)
(* (sql/init.sql).  Strings are sequences of one-character strings, so     *)
(* that prefixes, truncation and character classes are computed.           *)
(*                                                                         *)
(* Every request is handled by its own goroutine; the store executes one   *)
(* SQL statement atomically.  An action is therefore one handler up to and *)
(* including one statement, and a handler that issues two statements       *)
(* (createShortURL) or spawns a goroutine (redirectToURL) is split at      *)
(* those points.  Every statement may fail (dbOk = FALSE).                 *)
(***************************************************************************)
EXTENDS Integers, Sequences, FiniteSets, Bags, TLC

VARIABLES
    \* the program
    rows,      \* table urls, in insertion order
    nextId,    \* the sequence behind urls.id (SERIAL)
    now,       \* the store's clock, NOW()
    handlers,  \* the handlers in flight between two statements, with their locals
    incs,      \* the click-increment goroutines not yet run: a bag of codes
    \* what the clients have seen
    resp,      \* the response written by the latest step
    nreq,      \* the number of requests received
    issued,    \* the <<short_code, original_url>> pairs answered by createShortURL
    answered,  \* bag of codes: one copy per 301 written
    dropped,   \* bag of codes: one copy per increment that failed
    raced      \* TRUE once two createShortURL handlers have been in flight together

vars == <<rows, nextId, now, handlers, incs, resp, nreq, issued, answered, dropped, raced>>

----------------------------------------------------------------------------
(* Bounds of the model *)

MaxRequests == 4

Min(a, b) == IF a < b THEN a ELSE b

----------------------------------------------------------------------------
(* Strings *)

HasPrefix(s, p) == Len(s) >= Len(p) /\ SubSeq(s, 1, Len(p)) = p

Contains(s, ch) == \E k \in 1..Len(s) : s[k] = ch

Chars(s) == {s[k] : k \in 1..Len(s)}

HTTP == <<"h", "t", "t", "p", ":", "/", "/">>
HTTPS == <<"h", "t", "t", "p", "s", ":", "/", "/">>

Letters == {"A", "B", "C", "D", "E", "F", "G", "H", "I", "J", "K", "L", "M",
            "N", "O", "P", "Q", "R", "S", "T", "U", "V", "W", "X", "Y", "Z",
            "a", "b", "c", "d", "e", "f", "g", "h", "i", "j", "k", "l", "m",
            "n", "o", "p", "q", "r", "s", "t", "u", "v", "w", "x", "y", "z"}
Digits == {"0", "1", "2", "3", "4", "5", "6", "7", "8", "9"}

----------------------------------------------------------------------------
(* encoding/base64 *)

\* base64.StdEncoding, for comparison
encodeStd == <<"A", "B", "C", "D", "E", "F", "G", "H", "I", "J", "K", "L", "M",
               "N", "O", "P", "Q", "R", "S", "T", "U", "V", "W", "X", "Y", "Z",
               "a", "b", "c", "d", "e", "f", "g", "h", "i", "j", "k", "l", "m",
               "n", "o", "p", "q", "r", "s", "t", "u", "v", "w", "x", "y", "z",
               "0", "1", "2", "3", "4", "5", "6", "7", "8", "9", "+", "/">>

\* an alphabet with '.', as crypt(3) uses
encodeCrypt == <<"A", "B", "C", "D", "E", "F", "G", "H", "I", "J", "K", "L", "M",
                 "N", "O", "P", "Q", "R", "S", "T", "U", "V", "W", "X", "Y", "Z",
                 "a", "b", "c", "d", "e", "f", "g", "h", "i", "j", "k", "l", "m",
                 "n", "o", "p", "q", "r", "s", "t", "u", "v", "w", "x", "y", "z",
                 "0", "1", "2", "3", "4", "5", "6", "7", "8", "9", ".", "_">>

encodeURL == <<"A", "B", "C", "D", "E", "F", "G", "H", "I", "J", "K", "L", "M",
               "N", "O", "P", "Q", "R", "S", "T", "U", "V", "W", "X", "Y", "Z",
               "a", "b", "c", "d", "e", "f", "g", "h", "i", "j", "k", "l", "m",
               "n", "o", "p", "q", "r", "s", "t", "u", "v", "w", "x", "y", "z",
               "0", "1", "2", "3", "4", "5", "6", "7", "8", "9", "-", "_">>

\* Encoding.EncodeToString with padding '=': three bytes give four characters.
RECURSIVE EncodeToString(_, _)
EncodeToString(alphabet, bytes) ==
    IF Len(bytes) = 0 THEN <<>>
    ELSE IF Len(bytes) = 1 THEN
        <<alphabet[(bytes[1] \div 4) + 1],
          alphabet[((bytes[1] % 4) * 16) + 1], "=", "=">>
    ELSE IF Len(bytes) = 2 THEN
        <<alphabet[(bytes[1] \div 4) + 1],
          alphabet[((bytes[1] % 4) * 16 + bytes[2] \div 16) + 1],
          alphabet[((bytes[2] % 16) * 4) + 1], "=">>
    ELSE
        <<alphabet[(bytes[1] \div 4) + 1],
          alphabet[((bytes[1] % 4) * 16 + bytes[2] \div 16) + 1],
          alphabet[((bytes[2] % 16) * 4 + bytes[3] \div 64) + 1],
          alphabet[(bytes[3] % 64) + 1]>>
        \o EncodeToString(alphabet, SubSeq(bytes, 4, Len(bytes)))

\* strings.NewReplacer("+", "", "/", "", "=", "").Replace
Replace(s) == SelectSeq(s, LAMBDA ch : ch \notin {"+", "/", "="})

RandLen == 6
CodeLen == 6

generateShortCodeStd(bytes) ==
    LET code == Replace(EncodeToString(encodeStd, bytes))
    IN  IF Len(code) > CodeLen THEN SubSeq(code, 1, CodeLen) ELSE code

generateShortCode(bytes) ==
    LET code == Replace(EncodeToString(encodeURL, bytes))
    IN  IF Len(code) > CodeLen THEN SubSeq(code, 1, CodeLen) ELSE code

----------------------------------------------------------------------------
(* Requests and responses *)

Host == <<"h">>

\* The locals of a handler in flight.  prior, overlap and known record what the
\* clients had seen when the request was received.
Handler(kind, url, code, tls) ==
    [kind |-> kind, url |-> url, code |-> code, tls |-> tls, pc |-> "start",
     original_url |-> <<>>, location |-> <<>>,
     prior |-> {}, overlap |-> FALSE, known |-> {}]

\* No response written by this step.
Blank ==
    [kind |-> "none", url |-> <<>>, code |-> <<>>, status |-> 0, body |-> "",
     short_url |-> <<>>, short_code |-> <<>>, original_url |-> <<>>,
     location |-> <<>>, clicks |-> 0, created_at |-> 0, list |-> <<>>,
     generated |-> <<>>, inserted |-> FALSE,
     prior |-> {}, overlap |-> FALSE, known |-> {}]

\* c.JSON / c.Status / c.redirectToURL at the end of a handler
Respond(h, status, body) ==
    [Blank EXCEPT !.kind = h.kind, !.url = h.url, !.code = h.code,
                  !.status = status, !.body = body,
                  !.prior = h.prior, !.overlap = h.overlap, !.known = h.known]

RemoveAt(s, i) == SubSeq(s, 1, i - 1) \o SubSeq(s, i + 1, Len(s))

\* tls: the request came over TLS or carries X-Forwarded-Proto: https
buildShortURL(tls, code) ==
    (IF tls THEN <<"h", "t", "t", "p", "s">> ELSE <<"h", "t", "t", "p">>)
    \o <<":", "/", "/">> \o Host \o <<"/">> \o code

normalizeHttpsOnly(url) ==
    IF ~HasPrefix(url, HTTPS) THEN HTTPS \o url ELSE url

\* createShortURL: "Add protocol if missing"
normalize(url) ==
    IF ~HasPrefix(url, HTTP) /\ ~HasPrefix(url, HTTPS) THEN HTTPS \o url ELSE url

----------------------------------------------------------------------------
(* The store *)

ColumnWidth == 10
ListLimit == 100

\* SELECT short_code FROM urls WHERE original_url = $1
SelectCodeByURL(url) ==
    {rows[k].short_code : k \in {j \in DOMAIN rows : rows[j].original_url = url}}

\* SELECT ... FROM urls WHERE short_code = $1
SelectByCode(code) == {rows[k] : k \in {j \in DOMAIN rows : rows[j].short_code = code}}

\* short_code VARCHAR(10) UNIQUE NOT NULL
InsertAllowedNoUnique(shortCode) == Len(shortCode) <= ColumnWidth

InsertAllowed(shortCode) ==
    /\ Len(shortCode) <= ColumnWidth
    /\ \A k \in DOMAIN rows : rows[k].short_code # shortCode

\* The error db.Exec returns for the INSERT: none, a violated constraint, or
\* a failure to reach the store.
ExecInsert(shortCode, dbOk) ==
    IF ~dbOk THEN "unavailable"
    ELSE IF ~InsertAllowed(shortCode) THEN "constraint"
    ELSE "none"

\* INSERT INTO urls (short_code, original_url, clicks, created_at) VALUES ($1, $2, 0, NOW())
InsertRow(shortCode, originalURL) ==
    Append(rows, [id |-> nextId, short_code |-> shortCode, original_url |-> originalURL,
                  clicks |-> 0, created_at |-> now])

UpdateClicksAll(code) ==
    [k \in DOMAIN rows |-> [rows[k] EXCEPT !.clicks = rows[k].clicks + 1]]

UpdateClicksTouch(code) ==
    [k \in DOMAIN rows |->
        IF rows[k].short_code = code
        THEN [rows[k] EXCEPT !.clicks = rows[k].clicks + 1, !.created_at = now]
        ELSE rows[k]]

\* UPDATE urls SET clicks = clicks + 1 WHERE short_code = $1
UpdateClicks(code) ==
    [k \in DOMAIN rows |->
        IF rows[k].short_code = code
        THEN [rows[k] EXCEPT !.clicks = rows[k].clicks + 1]
        ELSE rows[k]]

\* SELECT ... FROM urls ORDER BY created_at DESC LIMIT 100: any order of the
\* rows that is descending in created_at, cut at the limit
ListResults ==
    LET n == Len(rows)
        orders == {f \in [1..n -> 1..n] :
                     /\ \A a, b \in 1..n : a # b => f[a] # f[b]
                     /\ \A a, b \in 1..n : a < b => rows[f[a]].created_at >= rows[f[b]].created_at}
    IN  {[k \in 1..Min(n, ListLimit) |-> rows[f[k]]] : f \in orders}

----------------------------------------------------------------------------
(* Handlers *)

Init ==
    /\ rows = <<>>
    /\ nextId = 1
    /\ now = 0
    /\ handlers = <<>>
    /\ incs = EmptyBag
    /\ resp = Blank
    /\ nreq = 0
    /\ issued = {}
    /\ answered = EmptyBag
    /\ dropped = EmptyBag
    /\ raced = FALSE

\* The store's clock advances.  Only the order and equality of timestamps is
\* observable, so the clock moves on once its current value has been used.
Tick ==
    /\ \E k \in DOMAIN rows : rows[k].created_at = now
    /\ now' = now + 1
    /\ resp' = Blank
    /\ UNCHANGED <<rows, nextId, handlers, incs, nreq, issued, answered, dropped, raced>>

ShortenBusy == \E k \in DOMAIN handlers : handlers[k].kind = "shorten"

MarkOverlap(hs) ==
    [k \in DOMAIN hs |->
        IF hs[k].kind = "shorten" THEN [hs[k] EXCEPT !.overlap = TRUE] ELSE hs[k]]

\* createShortURL, main.go 155-179: bind, normalize, look the URL up
createShortURLLookup(url, tls, dbOk) ==
    /\ nreq < MaxRequests
    /\ nreq' = nreq + 1
    /\ raced' = (raced \/ ShortenBusy)
    /\ LET originalURL == normalize(url)
           found == IF dbOk THEN SelectCodeByURL(originalURL) ELSE {}
           h == [Handler("shorten", url, <<>>, tls) EXCEPT
                    !.overlap = ShortenBusy,
                    !.prior = {p[1] : p \in {q \in issued : q[2] = originalURL}}]
       IN  \/ /\ url = <<>>
              /\ resp' = Respond(h, 400, "URL is required")
              /\ handlers' = MarkOverlap(handlers)
              /\ UNCHANGED issued
           \/ /\ url # <<>>
              /\ \E existingCode \in found :
                    /\ resp' = [Respond(h, 200, "") EXCEPT
                                   !.short_url = buildShortURL(tls, existingCode),
                                   !.short_code = existingCode,
                                   !.original_url = originalURL]
                    /\ issued' = issued \cup {<<existingCode, originalURL>>}
              /\ handlers' = MarkOverlap(handlers)
           \/ /\ url # <<>>
              /\ found = {}
              /\ handlers' = Append(MarkOverlap(handlers),
                                    [h EXCEPT !.pc = "generate", !.original_url = originalURL])
              /\ resp' = Blank
              /\ UNCHANGED issued
    /\ UNCHANGED <<rows, nextId, now, incs, answered, dropped>>

\* createShortURL, main.go 193: if err != nil
SaveFailedUnavailableOnly(err) == err = "unavailable"

SaveFailed(err) == err # "none"

\* createShortURL, main.go 181-203: generate a code, insert, answer
createShortURLInsert(i, bytes, randOk, dbOk) ==
    /\ handlers[i].kind = "shorten"
    /\ handlers[i].pc = "generate"
    /\ handlers' = RemoveAt(handlers, i)
    /\ LET h == handlers[i]
           shortCode == generateShortCode(bytes)
           err == ExecInsert(shortCode, dbOk)
       IN  \/ /\ ~randOk
              /\ resp' = Respond(h, 500, "Failed to generate short code")
              /\ UNCHANGED <<rows, nextId, issued>>
           \/ /\ randOk
              \* the store: a row is added only without error; the sequence
              \* behind id is consumed by every INSERT the store evaluates
              /\ rows' = IF err = "none" THEN InsertRow(shortCode, h.original_url) ELSE rows
              /\ nextId' = IF err = "unavailable" THEN nextId ELSE nextId + 1
              \* the handler
              /\ \/ /\ SaveFailed(err)
                    /\ resp' = [Respond(h, 500, "Failed to save URL") EXCEPT
                                   !.generated = shortCode]
                    /\ UNCHANGED issued
                 \/ /\ ~SaveFailed(err)
                    /\ resp' = [Respond(h, 201, "") EXCEPT
                                   !.short_url = buildShortURL(h.tls, shortCode),
                                   !.short_code = shortCode,
                                   !.original_url = h.original_url,
                                   !.generated = shortCode,
                                   !.inserted = (err = "none")]
                    /\ issued' = issued \cup {<<shortCode, h.original_url>>}
    /\ UNCHANGED <<now, incs, nreq, answered, dropped, raced>>

\* redirectToURL, main.go 209-210: "Skip if it looks like a file request"
LooksLikeFile(code) == Contains(code, ".")

\* redirectToURL, main.go 206-223: dot filter, lookup, spawn the increment
redirectToURL(code, dbOk) ==
    /\ nreq < MaxRequests
    /\ nreq' = nreq + 1
    /\ LET found == IF dbOk THEN {x.original_url : x \in SelectByCode(code)} ELSE {}
           h == [Handler("redirect", <<>>, code, FALSE) EXCEPT
                    !.known = {p[2] : p \in {q \in issued : q[1] = code}}]
       IN  \/ /\ LooksLikeFile(code)
              /\ resp' = Respond(h, 404, "")
              /\ UNCHANGED <<handlers, incs>>
           \/ /\ ~LooksLikeFile(code)
              /\ found = {}
              /\ resp' = Respond(h, 404, "Short URL not found")
              /\ UNCHANGED <<handlers, incs>>
           \/ /\ ~LooksLikeFile(code)
              /\ \E originalURL \in found :
                    handlers' = Append(handlers,
                                       [h EXCEPT !.pc = "respond", !.location = originalURL])
              /\ incs' = incs (+) SetToBag({code})
              /\ resp' = Blank
    /\ UNCHANGED <<rows, nextId, now, issued, answered, dropped, raced>>

\* redirectToURL, main.go 225: c.redirectToURL
redirectToURLRespond(i) ==
    /\ handlers[i].kind = "redirect"
    /\ handlers[i].pc = "respond"
    /\ handlers' = RemoveAt(handlers, i)
    /\ resp' = [Respond(handlers[i], 301, "") EXCEPT !.location = handlers[i].location]
    /\ answered' = answered (+) SetToBag({handlers[i].code})
    /\ UNCHANGED <<rows, nextId, now, incs, nreq, issued, dropped, raced>>

\* the goroutine of main.go 223; its result is dropped
incrementClicks(code, dbOk) ==
    /\ BagIn(code, incs)
    /\ incs' = incs (-) SetToBag({code})
    /\ resp' = Blank
    /\ \/ /\ dbOk
          /\ rows' = UpdateClicks(code)
          /\ UNCHANGED dropped
       \/ /\ ~dbOk
          /\ dropped' = dropped (+) SetToBag({code})
          /\ UNCHANGED rows
    /\ UNCHANGED <<nextId, now, handlers, nreq, issued, answered, raced>>

\* getStats, main.go 229-244
getStats(code, dbOk) ==
    /\ nreq < MaxRequests
    /\ nreq' = nreq + 1
    /\ LET h == Handler("stats", <<>>, code, FALSE)
           found == IF dbOk THEN SelectByCode(code) ELSE {}
       IN  \/ /\ found = {}
              /\ resp' = Respond(h, 404, "URL not found")
           \/ \E x \in found :
                 resp' = [Respond(h, 200, "") EXCEPT
                             !.short_code = x.short_code, !.original_url = x.original_url,
                             !.clicks = x.clicks, !.created_at = x.created_at]
    /\ UNCHANGED <<rows, nextId, now, handlers, incs, issued, answered, dropped, raced>>

\* listURLs, main.go 247-265
listURLs(dbOk) ==
    /\ nreq < MaxRequests
    /\ nreq' = nreq + 1
    /\ LET h == Handler("list", <<>>, <<>>, FALSE)
       IN  \/ /\ ~dbOk
              /\ resp' = Respond(h, 500, "Failed to fetch URLs")
           \/ /\ dbOk
              /\ \E urls \in ListResults : resp' = [Respond(h, 200, "") EXCEPT !.list = urls]
    /\ UNCHANGED <<rows, nextId, now, handlers, incs, issued, answered, dropped, raced>>

\* healthCheck, main.go 268-275
healthCheck(dbOk) ==
    /\ nreq < MaxRequests
    /\ nreq' = nreq + 1
    /\ LET h == Handler("health", <<>>, <<>>, FALSE)
       IN  resp' = IF dbOk THEN Respond(h, 200, "healthy") ELSE Respond(h, 503, "unhealthy")
    /\ UNCHANGED <<rows, nextId, now, handlers, incs, issued, answered, dropped, raced>>

\* the handlers in flight, by position
Generating == {k \in DOMAIN handlers : handlers[k].pc = "generate"}
Responding == {k \in DOMAIN handlers : handlers[k].pc = "respond"}

----------------------------------------------------------------------------
(* Inputs of the interleaving specification *)

A == <<"a">>
ZeroBytes == <<0, 0, 0, 0, 0, 0>>
DashBytes == <<251, 239, 190, 255, 255, 255>>

URLs == {<<>>, A, HTTPS \o A}
RandBytes == {ZeroBytes, DashBytes}
DotCode == <<"a", ".", "b">>
Codes == {generateShortCode(ZeroBytes), generateShortCode(DashBytes), DotCode}

Next ==
    \/ Tick
    \/ \E url \in URLs, dbOk \in BOOLEAN : createShortURLLookup(url, FALSE, dbOk)
    \/ \E i \in Generating, bytes \in RandBytes, randOk \in BOOLEAN, dbOk \in BOOLEAN :
          createShortURLInsert(i, bytes, randOk, dbOk)
    \/ \E code \in Codes, dbOk \in BOOLEAN : redirectToURL(code, dbOk)
    \/ \E i \in Responding : redirectToURLRespond(i)
    \/ \E code \in Codes, dbOk \in BOOLEAN : incrementClicks(code, dbOk)
    \/ \E code \in Codes, dbOk \in BOOLEAN : getStats(code, dbOk)
    \/ \E dbOk \in BOOLEAN : listURLs(dbOk)
    \/ \E dbOk \in BOOLEAN : healthCheck(dbOk)

Spec == Init /\ [][Next]_vars

----------------------------------------------------------------------------
(* Two createShortURL requests, one after the other or together, over a    *)
(* wider set of URLs *)

B == <<"b">>
WideURLs ==
    {<<>>, A, B, HTTP \o A, HTTPS \o A, HTTPS, HTTPS \o HTTPS \o A,
     <<"h", "t", "t", "p", ":", "/", "a">>,
     <<"H", "T", "T", "P", "S", ":", "/", "/", "a">>,
     <<"f", "t", "p", ":", "/", "/", "a">>,
     <<"h", "t", "t", "p", "s", "a">>}

UrlNext ==
    \/ /\ nreq < 2
       /\ \E url \in WideURLs, tls \in BOOLEAN, dbOk \in BOOLEAN : createShortURLLookup(url, tls, dbOk)
    \/ \E i \in Generating, bytes \in RandBytes, randOk \in BOOLEAN, dbOk \in BOOLEAN :
          createShortURLInsert(i, bytes, randOk, dbOk)

UrlSpec == Init /\ [][UrlNext]_vars

----------------------------------------------------------------------------
(* One createShortURL request over a wider set of random bytes, then one   *)
(* redirect for the code it answered or for a path with a dot *)

ByteVals == {0, 105, 215, 251, 255}
GenBytes == [1..RandLen -> ByteVals]
IssuedCodes == {p[1] : p \in issued}

GenNext ==
    \/ /\ nreq = 0
       /\ \E dbOk \in BOOLEAN : createShortURLLookup(A, FALSE, dbOk)
    \/ \E i \in Generating, bytes \in GenBytes, randOk \in BOOLEAN, dbOk \in BOOLEAN :
          createShortURLInsert(i, bytes, randOk, dbOk)
    \/ /\ nreq = 1
       /\ \E code \in IssuedCodes \cup {DotCode}, dbOk \in BOOLEAN : redirectToURL(code, dbOk)
    \/ \E i \in Responding : redirectToURLRespond(i)
    \/ \E code \in IssuedCodes, dbOk \in BOOLEAN : incrementClicks(code, dbOk)

GenSpec == Init /\ [][GenNext]_vars

----------------------------------------------------------------------------
(* Properties *)

CodesOf(url) == {p[1] : p \in {q \in issued : q[2] = url}}

DuplicateURL ==
    \E i, j \in DOMAIN rows : i # j /\ rows[i].original_url = rows[j].original_url

InFlight(code) ==
    Cardinality({k \in DOMAIN handlers :
                    handlers[k].kind = "redirect" /\ handlers[k].code = code})

\* C1: a createShortURL request for a URL for which a code has already been
\* answered, received when no two createShortURL requests have ever been in
\* flight together, inserts no row and, when it answers a code, answers 200
\* with that same code.  (An answer 500 is not held against the claim.)
C1_SequentialIdempotence ==
    (resp.kind = "shorten" /\ resp.prior # {} /\ ~raced) =>
        /\ ~resp.inserted
        /\ resp.status \in {200, 201} =>
              (resp.status = 200 /\ resp.prior = {resp.short_code})

C1_SecondAnswers200 ==
    /\ resp.kind = "shorten"
    /\ resp.status = 200
    /\ resp.url = HTTPS \o A
    /\ resp.prior = {resp.short_code}
    /\ ~raced
    /\ Len(rows) = 1

\* C2: a redirect for a code that createShortURL had answered before the
\* redirect was received answers 301 with the URL answered with that code; a
\* redirect for a code with a '.' or held by no row answers 404.
C2_RoundTrip ==
    resp.kind = "redirect" =>
        /\ resp.known # {} => (resp.status = 301 /\ resp.known = {resp.location})
        /\ (Contains(resp.code, ".") \/ SelectByCode(resp.code) = {}) => resp.status = 404

C2_IssuedCodeRedirected ==
    /\ resp.kind = "redirect"
    /\ resp.status = 301
    /\ resp.known = {HTTPS \o A}
    /\ resp.location = HTTPS \o A
    /\ Len(rows) = 2

\* C3: for every row, clicks plus the increments still to run plus the
\* increments that failed equals the number of redirects for its code that
\* passed the lookup (the 301s written and those about to be written); so
\* clicks never exceeds that number, and equals the number of 301s once no
\* redirect is in flight, no increment is pending and none has failed.
C3_ClickCounting ==
    \A k \in DOMAIN rows :
        LET c == rows[k].short_code
        IN  /\ rows[k].clicks + CopiesIn(c, incs) + CopiesIn(c, dropped)
                  = CopiesIn(c, answered) + InFlight(c)
            /\ rows[k].clicks <= CopiesIn(c, answered) + InFlight(c)
            /\ (InFlight(c) = 0 /\ CopiesIn(c, incs) = 0 /\ CopiesIn(c, dropped) = 0)
                  => rows[k].clicks = CopiesIn(c, answered)

C3_TwoRedirectsCounted ==
    \E k \in DOMAIN rows :
        /\ rows[k].clicks = 2
        /\ CopiesIn(rows[k].short_code, answered) = 2
        /\ incs = EmptyBag
        /\ handlers = <<>>

\* C4: no two rows of urls hold the same short_code.
C4_UniqueShortCode ==
    \A i, j \in DOMAIN rows : i # j => rows[i].short_code # rows[j].short_code

C4_CollisionRejected ==
    /\ resp.kind = "shorten"
    /\ resp.status = 500
    /\ resp.overlap
    /\ \E k \in DOMAIN rows : rows[k].short_code = resp.generated
    /\ nextId > Len(rows) + 1

\* C5: the original_url createShortURL answers (and stores, when it inserts)
\* is the input itself when the input starts with http:// or https://, and
\* https:// followed by the input otherwise; normalizing it again changes
\* nothing.
C5_Normalization ==
    (resp.kind = "shorten" /\ resp.status \in {200, 201}) =>
        LET u == resp.url
            v == resp.original_url
        IN  /\ (HasPrefix(u, HTTP) \/ HasPrefix(u, HTTPS)) => v = u
            /\ ~(HasPrefix(u, HTTP) \/ HasPrefix(u, HTTPS)) =>
                  /\ Len(v) = Len(u) + Len(HTTPS)
                  /\ SubSeq(v, 1, Len(HTTPS)) = HTTPS
                  /\ SubSeq(v, Len(HTTPS) + 1, Len(v)) = u
            /\ resp.inserted => rows[Len(rows)].original_url = v
            /\ \E k \in DOMAIN rows :
                  rows[k].short_code = resp.short_code /\ rows[k].original_url = v
            /\ normalize(v) = v

C5_SchemeAdded ==
    /\ resp.kind = "shorten"
    /\ resp.status = 200
    /\ resp.url = A
    /\ resp.original_url = HTTPS \o A
    /\ Len(rows) = 1

\* C6 as claimed: every generated code has 6 characters, all letters or digits.
C6_LettersDigitsOnly ==
    (resp.kind = "shorten" /\ (resp.status = 201 \/ resp.body = "Failed to save URL")) =>
        /\ Len(resp.generated) = CodeLen
        /\ Len(resp.generated) <= ColumnWidth
        /\ Chars(resp.generated) \subseteq Letters \cup Digits

\* C6 as amended: every generated code has 6 characters (at most the 10 of the
\* column), all letters, digits, '-' or '_'; never '=', '+', '/' or '.'.
C6_UrlSafeFixedLength ==
    (resp.kind = "shorten" /\ (resp.status = 201 \/ resp.body = "Failed to save URL")) =>
        /\ Len(resp.generated) = CodeLen
        /\ Len(resp.generated) <= ColumnWidth
        /\ Chars(resp.generated) \subseteq Letters \cup Digits \cup {"-", "_"}

C6_DashUnderscoreCode ==
    /\ resp.kind = "shorten"
    /\ resp.status = 201
    /\ "-" \in Chars(resp.short_code)
    /\ "_" \in Chars(resp.short_code)
    /\ "7" \in Chars(resp.short_code)

\* C7: two rows hold the same original_url only if two createShortURL
\* requests have been in flight together.
C7_DuplicateOnlyByRace == DuplicateURL => raced

C7_RaceReached ==
    /\ DuplicateURL
    /\ raced
    /\ resp.kind = "shorten"
    /\ resp.status = 201
    /\ resp.overlap
    /\ Cardinality(CodesOf(resp.original_url)) = 2

\* C8: in every step no row is removed; id, short_code, original_url and
\* created_at of a row stay; a new row has clicks = 0; clicks of a row changes
\* only by +1, in the step of an increment goroutine spawned by a redirect for
\* that row's code; a step that receives a request or writes a response
\* changes no existing row.
C8_LifecycleFrame ==
    [][/\ Len(rows') >= Len(rows)
       /\ \A k \in DOMAIN rows :
             /\ rows'[k].id = rows[k].id
             /\ rows'[k].short_code = rows[k].short_code
             /\ rows'[k].original_url = rows[k].original_url
             /\ rows'[k].created_at = rows[k].created_at
             /\ rows'[k].clicks >= rows[k].clicks
             /\ rows'[k].clicks # rows[k].clicks =>
                   /\ rows'[k].clicks = rows[k].clicks + 1
                   /\ BagIn(rows[k].short_code, incs)
                   /\ incs' = incs (-) SetToBag({rows[k].short_code})
                   /\ nreq' = nreq
                   /\ resp' = Blank
       /\ \A k \in DOMAIN rows' \ DOMAIN rows : rows'[k].clicks = 0
       /\ (nreq' # nreq \/ resp'.kind # "none") =>
             \A k \in DOMAIN rows : rows'[k] = rows[k]]_vars

C8_ClickedThenListed ==
    /\ resp.kind = "list"
    /\ resp.status = 200
    /\ Len(rows) = 2
    /\ \E k \in DOMAIN rows : rows[k].clicks = 1 /\ rows[k].created_at < now

C10_DotFilterHidesNothing ==
    /\ \A k \in DOMAIN rows : ~Contains(rows[k].short_code, ".")
    /\ (resp.kind = "redirect" /\ resp.known # {}) =>
          ~(resp.status = 404 /\ resp.body = "")

C10_IssuedCodeRedirected ==
    /\ resp.kind = "redirect"
    /\ resp.known # {}
    /\ resp.status = 301
    /\ "_" \in Chars(resp.code)

====
